---- MODULE Spec2Model ----
(***************************************************************************)
(* Model of deeppavlov_kg/core/ontology.py: the ontology tree manager.     *)
(* Every public function is one action: load, mutate in memory, save.      *)
(* The persisted snapshot is the variable store; last records the most     *)
(* recent call (arguments, store before the call, result, log lines).      *)
(* SpecRace runs two callers whose load, mutate and save steps interleave;  *)
(* race holds each caller's position, loaded tree and pending saves.        *)
(***************************************************************************)
EXTENDS Integers, Sequences, FiniteSets, TLC

VARIABLES store, last, race

vars == <<store, last, race>>

(* ------------------------------ bounds --------------------------------- *)
\* number of non-root kind names callers use
MaxKinds == 2
\* longest property list callers pass
MaxLen == 2
\* interpreter frame budget (stands for Python's recursion limit): a create_kind
\* nested deeper than this ends in RecursionError
MaxDepth == 3

(* --------------------------- optional values --------------------------- *)
\* Python's None and a present value, as a sequence of length 0 or 1
None == <<>>
Some(x) == <<x>>

(* ------------------------------ strings -------------------------------- *)
\* a string is a sequence of one-character strings
Lowers == <<"a","b","c","d","e","f","g","h","i","j","k","l","m",
            "n","o","p","q","r","s","t","u","v","w","x","y","z">>
Uppers == <<"A","B","C","D","E","F","G","H","I","J","K","L","M",
            "N","O","P","Q","R","S","T","U","V","W","X","Y","Z">>

\* the letter tables: each lower-case letter's upper-case form and the reverse
UpperOf == [c \in {Lowers[i] : i \in DOMAIN Lowers} |->
              Uppers[CHOOSE i \in DOMAIN Lowers : Lowers[i] = c]]
LowerOf == [c \in {Uppers[i] : i \in DOMAIN Uppers} |->
              Lowers[CHOOSE i \in DOMAIN Uppers : Uppers[i] = c]]

\* str.upper() and str.lower() on one character: other characters are kept
upper(c) == IF c \in DOMAIN UpperOf THEN UpperOf[c] ELSE c

lower(c) == IF c \in DOMAIN LowerOf THEN LowerOf[c] ELSE c

\* str.capitalize(): first character upper-cased, the rest lower-cased
capitalize(s) == [i \in 1..Len(s) |-> IF i = 1 THEN upper(s[i]) ELSE lower(s[i])]

\* the opposite letter-casing of every character (used to build caller inputs)
swapcase(s) == [i \in 1..Len(s) |-> IF upper(s[i]) = s[i] THEN lower(s[i]) ELSE upper(s[i])]

\* the root identifier "Kind"
Root == <<"K","i","n","d">>

KindNames == << <<"A","b">>, <<"C","d">>, <<"E","f">>, <<"G","h">> >>

\* the names callers pass: the root and MaxKinds kinds as stored, and the root
\* and the first kind in the opposite casing as well
CanonKinds == {Root} \cup {KindNames[i] : i \in 1..MaxKinds}
KindArgs == CanonKinds \cup {swapcase(Root), swapcase(KindNames[1])}
\* the property names callers pass
Props == {"salary", "wage"}

RECURSIVE SeqsUpTo(_)
SeqsUpTo(n) ==
  IF n = 0 THEN {<<>>}
  ELSE LET shorter == SeqsUpTo(n - 1)
       IN shorter \cup {Append(s, p) : s \in {t \in shorter : Len(t) = n - 1}, p \in Props}
PropLists == SeqsUpTo(MaxLen)

(* ------------------------------- treelib ------------------------------- *)
\* Entity(properties): the node payload
Entity(properties) == [properties |-> properties]

\* Tree(): no root, no nodes
EmptyTree == [root |-> None, nodes |-> <<>>]

contains(tree, nid) == nid \in DOMAIN tree.nodes

\* tree.get_node(nid): the node, or None
get_node(tree, nid) == IF contains(tree, nid) THEN Some(tree.nodes[nid]) ELSE None

\* len(tree), which decides the truth value of a Tree object
size(tree) == Cardinality(DOMAIN tree.nodes)

Extend(f, k, v) == [x \in (DOMAIN f) \cup {k} |-> IF x = k THEN v ELSE f[x]]

\* tree.add_node(node, parent) once the identifier is known to be new: the root
\* when parent is None, else linked under parent
TreeAddNode(tree, nid, parent, data) ==
  IF parent = None
  THEN IF tree.root # None
       THEN [raised |-> "MultipleRootError", tree |-> tree]
       ELSE [raised |-> "",
             tree |-> [root |-> Some(nid),
                       nodes |-> Extend(tree.nodes, nid,
                                   [tag |-> nid, bpointer |-> None, fpointer |-> <<>>, data |-> data])]]
  ELSE IF ~contains(tree, parent[1])
  THEN [raised |-> "NodeIDAbsentError", tree |-> tree]
  ELSE LET withNode == Extend(tree.nodes, nid,
                         [tag |-> nid, bpointer |-> parent, fpointer |-> <<>>, data |-> data])
           p == parent[1]
       IN [raised |-> "",
           tree |-> [root |-> tree.root,
                     nodes |-> [withNode EXCEPT ![p].fpointer = Append(withNode[p].fpointer, nid)]]]

\* create_node that links the node without testing for a duplicate identifier
TreeCreateNode_NoDupCheck(tree, nid, parent, data) ==
  TreeAddNode(tree, nid, parent, data)

\* create_node that replaces the payload of a node whose identifier is taken
\* instead of raising DuplicatedNodeIdError
TreeCreateNode_OverwriteData(tree, nid, parent, data) ==
  IF contains(tree, nid)
  THEN [raised |-> "", tree |-> [tree EXCEPT !.nodes[nid].data = data]]
  ELSE TreeAddNode(tree, nid, parent, data)

\* tree.create_node(tag, identifier, parent, data)
TreeCreateNode(tree, nid, parent, data) ==
  IF contains(tree, nid)
  THEN [raised |-> "DuplicatedNodeIdError", tree |-> tree]
  ELSE TreeAddNode(tree, nid, parent, data)

\* tree.expand_tree(nid): nid and everything below it, by the child lists
RECURSIVE expand_tree(_, _)
expand_tree(tree, nid) ==
  {nid} \cup UNION {expand_tree(tree, tree.nodes[nid].fpointer[i]) :
                      i \in DOMAIN tree.nodes[nid].fpointer}

SelectSeqNe(s, x) == SelectSeq(s, LAMBDA y : y # x)

\* the tree without the nodes in removed, nid unlinked from its parent's child list
RemoveSet(tree, nid, removed) ==
  LET parent == tree.nodes[nid].bpointer
      kept == (DOMAIN tree.nodes) \ removed
  IN [root |-> IF tree.root # None /\ tree.root[1] \in removed THEN None ELSE tree.root,
      nodes |-> [x \in kept |->
                   IF parent # None /\ x = parent[1]
                   THEN [tree.nodes[x] EXCEPT !.fpointer = SelectSeqNe(@, nid)]
                   ELSE tree.nodes[x]]]

\* remove_node that unlinks the node alone and leaves its subtree behind
TreeRemoveNode_NodeOnly(tree, nid) == RemoveSet(tree, nid, {nid})

\* remove_node that clears everything below nid's parent, siblings included
TreeRemoveNode_WithSiblings(tree, nid) ==
  IF tree.nodes[nid].bpointer = None
  THEN RemoveSet(tree, nid, expand_tree(tree, nid))
  ELSE LET p == tree.nodes[nid].bpointer[1]
           kept == (DOMAIN tree.nodes) \ (expand_tree(tree, p) \ {p})
       IN [root |-> tree.root,
           nodes |-> [x \in kept |->
                        IF x = p THEN [tree.nodes[x] EXCEPT !.fpointer = <<>>]
                        ELSE tree.nodes[x]]]

\* tree.remove_node(nid): removes nid and all of its descendants
TreeRemoveNode(tree, nid) == RemoveSet(tree, nid, expand_tree(tree, nid))

\* the tags of the nodes in ids and of everything below them, parents first
RECURSIVE SubtreeTags(_, _)
SubtreeTags(tree, ids) ==
  IF ids = <<>> THEN <<>>
  ELSE <<tree.nodes[Head(ids)].tag>>
       \o SubtreeTags(tree, tree.nodes[Head(ids)].fpointer)
       \o SubtreeTags(tree, Tail(ids))

\* children that walks the whole subtree below nid instead of one level
TreeChildren_Subtree(tree, nid) ==
  IF ~contains(tree, nid)
  THEN [raised |-> "NodeIDAbsentError", tags |-> <<>>]
  ELSE [raised |-> "", tags |-> SubtreeTags(tree, tree.nodes[nid].fpointer)]

\* tree.children(nid): the child nodes' tags in the tree's order, or NodeIDAbsentError
TreeChildren(tree, nid) ==
  IF ~contains(tree, nid)
  THEN [raised |-> "NodeIDAbsentError", tags |-> <<>>]
  ELSE [raised |-> "",
        tags |-> [i \in DOMAIN tree.nodes[nid].fpointer |->
                    tree.nodes[tree.nodes[nid].fpointer[i]].tag]]

(* ------------------------- persistence gateway ------------------------- *)
\* loader.load_ontology_graph(): the saved snapshot, or None if none was saved
load_ontology_graph(st) == st

\* loader.save_ontology_graph(tree): replaces the snapshot
save_ontology_graph(tree) == Some(tree)

(* ------------------------------ create_kind ---------------------------- *)
\* the tree create_kind starts from when the store is absent: only the root
NewRootTree == TreeCreateNode(EmptyTree, Root, None, Entity({})).tree

\* one create_kind frame; depth counts the frames above it.
\* Result: outcome ("return" or the exception that escapes), the in-memory
\* tree, the store, the log lines, the deepest frame entered.
RECURSIVE create_kind(_, _, _, _, _, _)
create_kind(kind0, parent0, start_tree, kind_properties, st, depth) ==
  LET kind == capitalize(kind0)
      parent == capitalize(parent0)
      loaded == IF start_tree = None THEN load_ontology_graph(st) ELSE start_tree
      tree0 == IF loaded = None THEN NewRootTree ELSE loaded[1]
  IN IF depth > MaxDepth
     THEN [outcome |-> "RecursionError", tree |-> tree0, store |-> st,
           log |-> {}, depth |-> depth, saves |-> 0]
     ELSE
       LET rec == IF get_node(tree0, parent) = None
                  THEN create_kind(parent, Root, Some(tree0), {}, st, depth + 1)
                  ELSE [outcome |-> "return", tree |-> tree0, store |-> st,
                        log |-> {}, depth |-> depth, saves |-> 0]
       IN IF rec.outcome # "return"
          THEN rec
          ELSE
            LET tree == rec.tree
                parent_node == get_node(tree, parent)
                log1 == IF get_node(tree0, parent) = None
                        THEN rec.log \cup {"warning: parent added under Kind"}
                        ELSE rec.log
            IN IF parent_node = None
               THEN [outcome |-> "AttributeError", tree |-> tree, store |-> rec.store,
                     log |-> log1, depth |-> rec.depth, saves |-> rec.saves]
               ELSE
                 LET properties == kind_properties \cup parent_node[1].data.properties
                     made == TreeCreateNode(tree, kind, Some(parent), Entity(properties))
                 IN IF made.raised = "DuplicatedNodeIdError"
                    THEN [outcome |-> "return", tree |-> tree, store |-> rec.store,
                          log |-> log1 \cup {"info: kind exists"}, depth |-> rec.depth,
                          saves |-> rec.saves]
                    ELSE IF made.raised # ""
                    THEN [outcome |-> made.raised, tree |-> tree, store |-> rec.store,
                          log |-> log1, depth |-> rec.depth, saves |-> rec.saves]
                    ELSE [outcome |-> "return", tree |-> made.tree,
                          store |-> save_ontology_graph(made.tree),
                          log |-> log1, depth |-> rec.depth, saves |-> rec.saves + 1]

(* ------------------------------ get_kind_node -------------------------- *)
\* get_kind_node(tree, kind): the node or None, with the error it logs
get_kind_node(tree, kind) ==
  IF tree = None
  THEN [node |-> None, log |-> {"error: graph is empty"}]
  ELSE IF get_node(tree[1], kind) = None
  THEN [node |-> None, log |-> {"error: kind not in graph"}]
  ELSE [node |-> get_node(tree[1], kind), log |-> {}]

(* ------------------------------ remove_kind ---------------------------- *)
\* remove_kind that saves the loaded tree although the kind was not found
remove_kind_SaveOnMiss(kind, st) ==
  LET tree == load_ontology_graph(st)
      found == get_kind_node(tree, kind)
  IN IF found.node = None
     THEN [outcome |-> "return",
           store |-> save_ontology_graph(IF tree = None THEN EmptyTree ELSE tree[1]),
           log |-> found.log, saves |-> 1]
     ELSE [outcome |-> "return",
           store |-> save_ontology_graph(TreeRemoveNode(tree[1], kind)),
           log |-> {"info: kind removed"}, saves |-> 1]

remove_kind(kind, st) ==
  LET tree == load_ontology_graph(st)
      found == get_kind_node(tree, kind)
  IN IF found.node = None
     THEN [outcome |-> "return", store |-> st, log |-> found.log, saves |-> 0]
     ELSE [outcome |-> "return",
           store |-> save_ontology_graph(TreeRemoveNode(tree[1], kind)),
           log |-> {"info: kind removed"}, saves |-> 1]

(* ----------------------- update_properties_of_kind --------------------- *)
\* the for loop over enumerate(old_properties), from index idx on, acting on
\* the node's in-memory property set
RECURSIVE rename_from(_, _, _, _)
rename_from(properties, old_properties, new_properties, idx) ==
  IF idx > Len(old_properties)
  THEN [outcome |-> "done", properties |-> properties, log |-> {}]
  ELSE IF old_properties[idx] \in properties
  THEN IF idx > Len(new_properties)
       THEN [outcome |-> "IndexError",
             properties |-> properties \ {old_properties[idx]}, log |-> {}]
       ELSE rename_from((properties \ {old_properties[idx]}) \cup {new_properties[idx]},
                        old_properties, new_properties, idx + 1)
  ELSE [outcome |-> "abort", properties |-> properties,
        log |-> {"error: property not in kind"}]

\* a property update that is pushed down to every node below kind as well
WithProperties_Deep(tree, kind, properties) ==
  [tree EXCEPT !.nodes = [n \in DOMAIN tree.nodes |->
     IF n \in expand_tree(tree, kind)
     THEN [tree.nodes[n] EXCEPT !.data.properties = properties]
     ELSE tree.nodes[n]]]

WithProperties(tree, kind, properties) ==
  [tree EXCEPT !.nodes[kind].data.properties = properties]

\* update_properties_of_kind that saves the tree on the error path as well
update_properties_of_kind_SaveOnAbort(kind, old_properties, new_properties, st) ==
  LET tree == load_ontology_graph(st)
      found == get_kind_node(tree, kind)
  IN IF found.node = None
     THEN [outcome |-> "return", store |-> st, log |-> found.log, saves |-> 0]
     ELSE LET loop == rename_from(found.node[1].data.properties,
                                  old_properties, new_properties, 1)
          IN IF loop.outcome = "IndexError"
             THEN [outcome |-> "IndexError", store |-> st, log |-> {}, saves |-> 0]
             ELSE [outcome |-> "return",
                   store |-> save_ontology_graph(WithProperties(tree[1], kind, loop.properties)),
                   log |-> loop.log, saves |-> 1]

update_properties_of_kind(kind, old_properties, new_properties, st) ==
  LET tree == load_ontology_graph(st)
      found == get_kind_node(tree, kind)
  IN IF found.node = None
     THEN [outcome |-> "return", store |-> st, log |-> found.log, saves |-> 0]
     ELSE LET loop == rename_from(found.node[1].data.properties,
                                  old_properties, new_properties, 1)
          IN IF loop.outcome = "abort"
             THEN [outcome |-> "return", store |-> st, log |-> loop.log, saves |-> 0]
             ELSE IF loop.outcome = "IndexError"
             THEN [outcome |-> "IndexError", store |-> st, log |-> {}, saves |-> 0]
             ELSE [outcome |-> "return",
                   store |-> save_ontology_graph(WithProperties(tree[1], kind, loop.properties)),
                   log |-> {"info: properties updated"}, saves |-> 1]

(* -------------------------------- queries ------------------------------ *)
get_descendant_kinds(kind, st) ==
  LET tree == load_ontology_graph(st)
  IN IF tree # None /\ size(tree[1]) > 0
     THEN LET ch == TreeChildren(tree[1], kind)
          IN IF ch.raised = "NodeIDAbsentError"
             THEN [outcome |-> "return", ret |-> None, log |-> {"error: kind not in graph"}]
             ELSE [outcome |-> "return", ret |-> Some(ch.tags), log |-> {}]
     ELSE [outcome |-> "return", ret |-> Some(<<>>), log |-> {}]

get_kind_properties(kind, st) ==
  LET tree == load_ontology_graph(st)
      found == get_kind_node(tree, kind)
  IN IF found.node # None
     THEN [outcome |-> "return", ret |-> Some(found.node[1].data.properties), log |-> found.log]
     ELSE [outcome |-> "return", ret |-> None, log |-> found.log]

\* the for loop of are_properties_in_kind from index idx on; kind_properties
\* is get_kind_properties' result, possibly None
RECURSIVE members_from(_, _, _)
members_from(list_of_property_kinds, kind_properties, idx) ==
  IF idx > Len(list_of_property_kinds)
  THEN [outcome |-> "return", ret |-> Some(TRUE), log |-> {}]
  ELSE IF kind_properties = None
  THEN [outcome |-> "TypeError", ret |-> None, log |-> {}]
  ELSE IF list_of_property_kinds[idx] \notin kind_properties[1]
  THEN [outcome |-> "return", ret |-> Some(FALSE), log |-> {"error: property not in kind"}]
  ELSE members_from(list_of_property_kinds, kind_properties, idx + 1)

are_properties_in_kind(list_of_property_kinds, kind, st) ==
  LET got == get_kind_properties(kind, st)
      loop == members_from(list_of_property_kinds, got.ret, 1)
  IN [outcome |-> loop.outcome, ret |-> loop.ret, log |-> got.log \cup loop.log]

(* ------------------------------ state machine -------------------------- *)
\* the record of a call; fields an operation does not use keep these values
NoCall ==
  [op |-> "none", kind |-> <<>>, parent |-> <<>>, props |-> {}, old |-> <<>>, new |-> <<>>,
   pre |-> None, outcome |-> "return", ret |-> None, log |-> {}, depth |-> 0, saves |-> 0]

\* the callers of the interleaved runs
Callers == {"c1", "c2"}

\* a caller that has not started its call
NotStarted ==
  [pc |-> "ready", tree |-> None, seen |-> 0, op |-> "none", kind |-> <<>>,
   writes |-> <<>>, result |-> None, outcome |-> "return"]

\* no caller has started, no save has happened
RaceInit == [callers |-> [c \in Callers |-> NotStarted], saved |-> <<>>]

Init ==
  /\ store = None
  /\ last = NoCall
  /\ race = RaceInit

\* the caller is between calls: the operations are synchronous and run one at a time
Idle == last.op = "none"

\* create_kind that returns the tree as it was loaded, not the tree it built
CreateKind_ReturnsLoaded ==
  /\ Idle
  /\ \E kind \in KindArgs, parent \in KindArgs, kind_properties \in SUBSET Props :
    LET r == create_kind(kind, parent, None, kind_properties, store, 0)
    IN /\ store' = r.store
       /\ last' = [NoCall EXCEPT !.op = "create_kind", !.kind = kind, !.parent = parent,
                                 !.props = kind_properties, !.pre = store,
                                 !.outcome = r.outcome,
                                 !.ret = IF r.outcome = "return"
                                         THEN IF store = None THEN Some(NewRootTree) ELSE store
                                         ELSE None,
                                 !.log = r.log, !.depth = r.depth, !.saves = r.saves]
       /\ UNCHANGED race

CreateKind ==
  /\ Idle
  /\ \E kind \in KindArgs, parent \in KindArgs, kind_properties \in SUBSET Props :
    LET r == create_kind(kind, parent, None, kind_properties, store, 0)
    IN /\ store' = r.store
       /\ last' = [NoCall EXCEPT !.op = "create_kind", !.kind = kind, !.parent = parent,
                                 !.props = kind_properties, !.pre = store,
                                 !.outcome = r.outcome,
                                 !.ret = IF r.outcome = "return" THEN Some(r.tree) ELSE None,
                                 !.log = r.log, !.depth = r.depth, !.saves = r.saves]
       /\ UNCHANGED race

RemoveKind ==
  /\ Idle
  /\ \E kind \in KindArgs :
    LET r == remove_kind(kind, store)
    IN /\ store' = r.store
       /\ last' = [NoCall EXCEPT !.op = "remove_kind", !.kind = kind, !.pre = store,
                                 !.outcome = r.outcome, !.log = r.log, !.saves = r.saves]
       /\ UNCHANGED race

UpdatePropertiesOfKind ==
  /\ Idle
  /\ \E kind \in KindArgs, old_properties \in PropLists :
     \E new_properties \in {l \in PropLists : Len(l) = Len(old_properties)} :
    LET r == update_properties_of_kind(kind, old_properties, new_properties, store)
    IN /\ store' = r.store
       /\ last' = [NoCall EXCEPT !.op = "update_properties_of_kind", !.kind = kind,
                                 !.old = old_properties, !.new = new_properties,
                                 !.pre = store, !.outcome = r.outcome, !.log = r.log,
                                 !.saves = r.saves]
       /\ UNCHANGED race

GetDescendantKinds ==
  /\ Idle
  /\ \E kind \in KindArgs :
    LET r == get_descendant_kinds(kind, store)
    IN /\ store' = store
       /\ last' = [NoCall EXCEPT !.op = "get_descendant_kinds", !.kind = kind, !.pre = store,
                                 !.outcome = r.outcome, !.ret = r.ret, !.log = r.log]
       /\ UNCHANGED race

GetKindProperties ==
  /\ Idle
  /\ \E kind \in KindArgs :
    LET r == get_kind_properties(kind, store)
    IN /\ store' = store
       /\ last' = [NoCall EXCEPT !.op = "get_kind_properties", !.kind = kind, !.pre = store,
                                 !.outcome = r.outcome, !.ret = r.ret, !.log = r.log]
       /\ UNCHANGED race

ArePropertiesInKind ==
  /\ Idle
  /\ \E list_of_property_kinds \in PropLists, kind \in KindArgs :
    LET r == are_properties_in_kind(list_of_property_kinds, kind, store)
    IN /\ store' = store
       /\ last' = [NoCall EXCEPT !.op = "are_properties_in_kind", !.kind = kind,
                                 !.old = list_of_property_kinds, !.pre = store,
                                 !.outcome = r.outcome, !.ret = r.ret, !.log = r.log]
       /\ UNCHANGED race

\* the caller takes the result of the finished call; the next call may start
Return ==
  /\ ~Idle
  /\ last' = NoCall
  /\ UNCHANGED <<store, race>>

Next ==
  \/ Return
  \/ CreateKind
  \/ RemoveKind
  \/ UpdatePropertiesOfKind
  \/ GetDescendantKinds
  \/ GetKindProperties
  \/ ArePropertiesInKind

Spec == Init /\ [][Next]_vars

(* ------------------------- interleaved callers ------------------------- *)
\* the arguments the interleaved callers pass
RaceKinds == CanonKinds
RaceLists == {l \in PropLists : Len(l) <= 1}

\* a save that is skipped when the snapshot changed since the caller loaded it
RaceWrite_RefuseStale(st, loaded, tree) ==
  IF st = loaded THEN save_ontology_graph(tree) ELSE st

\* loader.save_ontology_graph(tree) as the functions call it: the tree in
\* memory replaces the snapshot, whatever the snapshot has become since the load
RaceWrite(st, loaded, tree) == save_ontology_graph(tree)

\* the caller's record once its in-memory work is done: the trees it still has
\* to save, in order, and the tree it ends with
Mutated(c, op, kind, outcome, writes) ==
  [race EXCEPT !.callers[c] =
     [@ EXCEPT !.pc = IF writes = <<>> THEN "done" ELSE "saving",
               !.op = op, !.kind = kind, !.outcome = outcome, !.writes = writes,
               !.result = IF writes = <<>> THEN None ELSE Some(writes[Len(writes)])]]

\* the first statement of every mutating function: load the snapshot
RaceLoad(c) ==
  /\ race.callers[c].pc = "ready"
  /\ race' = [race EXCEPT !.callers[c] =
                [@ EXCEPT !.pc = "loaded", !.tree = load_ontology_graph(store),
                          !.seen = Len(race.saved)]]
  /\ UNCHANGED <<store, last>>

\* create_kind after its load, up to its saves: the parent's auto-creation is
\* saved first, the new kind second
RaceCreate(c) ==
  /\ race.callers[c].pc = "loaded"
  /\ \E kind \in RaceKinds, parent \in RaceKinds, kind_properties \in SUBSET Props :
       LET loaded == race.callers[c].tree
           tree0 == IF loaded = None THEN NewRootTree ELSE loaded[1]
           r == create_kind(kind, parent, Some(tree0), kind_properties, loaded, 0)
           first == create_kind(parent, Root, Some(tree0), {}, loaded, 1)
           writes == IF r.saves = 2 THEN <<first.tree, r.tree>>
                     ELSE IF r.saves = 1 THEN <<r.tree>>
                     ELSE <<>>
       IN race' = Mutated(c, "create_kind", capitalize(kind), r.outcome, writes)
  /\ UNCHANGED <<store, last>>

\* remove_kind after its load, up to its save
RaceRemove(c) ==
  /\ race.callers[c].pc = "loaded"
  /\ \E kind \in RaceKinds :
       LET r == remove_kind(kind, race.callers[c].tree)
       IN race' = Mutated(c, "remove_kind", kind, r.outcome,
                          IF r.saves = 1 THEN <<r.store[1]>> ELSE <<>>)
  /\ UNCHANGED <<store, last>>

\* update_properties_of_kind after its load, up to its save
RaceUpdate(c) ==
  /\ race.callers[c].pc = "loaded"
  /\ \E kind \in RaceKinds, old_properties \in RaceLists :
     \E new_properties \in {l \in RaceLists : Len(l) = Len(old_properties)} :
       LET r == update_properties_of_kind(kind, old_properties, new_properties,
                                          race.callers[c].tree)
       IN race' = Mutated(c, "update_properties_of_kind", kind, r.outcome,
                          IF r.saves = 1 THEN <<r.store[1]>> ELSE <<>>)
  /\ UNCHANGED <<store, last>>

\* one loader.save_ontology_graph call of a caller
RaceSave(c) ==
  /\ race.callers[c].pc = "saving"
  /\ store' = RaceWrite(store, race.callers[c].tree, Head(race.callers[c].writes))
  /\ race' = [race EXCEPT
                !.callers[c] = [@ EXCEPT !.writes = Tail(@),
                                         !.pc = IF Len(race.callers[c].writes) = 1
                                                THEN "done" ELSE "saving"],
                !.saved = Append(@, c)]
  /\ UNCHANGED last

NextRace ==
  \/ \E c \in Callers : RaceLoad(c)
  \/ \E c \in Callers : RaceCreate(c)
  \/ \E c \in Callers : RaceRemove(c)
  \/ \E c \in Callers : RaceUpdate(c)
  \/ \E c \in Callers : RaceSave(c)

SpecRace == Init /\ [][NextRace]_vars

(* ------------------------ vocabulary of the claims --------------------- *)
\* kind k is resolvable in the snapshot st
Has(st, k) == st # None /\ contains(st[1], k)

\* the stored property set of k in the snapshot st
PropsOf(st, k) == st[1].nodes[k].data.properties

\* the tree a create_kind call starts from: the snapshot, or the root alone
\* when nothing is stored
StartOf(st) == IF st = None THEN Some(NewRootTree) ELSE st

\* n is k or lies below k, following parent pointers upward from n
RECURSIVE IsUnder(_, _, _)
IsUnder(tree, n, k) ==
  \/ n = k
  \/ /\ tree.nodes[n].bpointer # None
     /\ contains(tree, tree.nodes[n].bpointer[1])
     /\ IsUnder(tree, tree.nodes[n].bpointer[1], k)

\* the identifiers that are in the node table or in some child list
LinkedIds(tree) ==
  (DOMAIN tree.nodes)
  \cup UNION {{tree.nodes[n].fpointer[i] : i \in DOMAIN tree.nodes[n].fpointer} :
               n \in DOMAIN tree.nodes}

\* how many times the identifier k is linked into the tree: as the root and
\* as an entry of some node's child list
Occurrences(tree, k) ==
  (IF tree.root = Some(k) THEN 1 ELSE 0)
  + Cardinality({pos \in UNION {{<<n, i>> : i \in DOMAIN tree.nodes[n].fpointer} :
                                  n \in DOMAIN tree.nodes} :
                   tree.nodes[pos[1]].fpointer[pos[2]] = k})

\* the property set after the first i pairs have been applied in index order
AppliedUpTo(P, old, new) ==
  LET f[i \in 0..Len(old)] ==
        IF i = 0 THEN P ELSE (f[i - 1] \ {old[i]}) \cup {new[i]}
  IN f

\* every old property is present when its pair is reached
AllPresentInTurn(P, old, new) ==
  \A i \in 1..Len(old) : old[i] \in AppliedUpTo(P, old, new)[i - 1]

UpdateOnExisting == last.op = "update_properties_of_kind" /\ Has(last.pre, last.kind)

LookupOps == {"remove_kind", "update_properties_of_kind",
              "get_descendant_kinds", "get_kind_properties"}

(* -------------------------------- claims ------------------------------- *)
\* C1: once a mutating call has saved a tree, the persisted tree contains the
\* root "Kind" and the root's property set is empty.
C1_RootInvariant ==
  store # None => (Has(store, Root) /\ PropsOf(store, Root) = {})

\* C2: create_kind for a kind that already exists leaves the persisted tree
\* equal to the tree before the call, whatever parent and properties are passed.
C2_DuplicateNoOp ==
  (last.op = "create_kind" /\ Has(last.pre, capitalize(last.kind)))
    => store = last.pre

\* C3 as stated: update_properties_of_kind on an existing kind either applies
\* every pair in index order and saves once or leaves the stored set as it was;
\* if some old_properties[i] is absent from the kind's stored property set, the
\* stored set is unchanged and nothing is saved.
C3_AtomicUpdate_Original ==
  UpdateOnExisting =>
    LET P == PropsOf(last.pre, last.kind)
        n == Len(last.old)
    IN /\ \/ store = last.pre /\ last.saves = 0
          \/ /\ PropsOf(store, last.kind) = AppliedUpTo(P, last.old, last.new)[n]
             /\ last.saves = 1
       /\ (\E i \in 1..n : last.old[i] \notin P) => (store = last.pre /\ last.saves = 0)

\* C3 amended: update_properties_of_kind on an existing kind applies every pair
\* in index order and saves once when each old_properties[i] is present in the
\* property set as it stands when pair i is reached; otherwise the persisted
\* tree is unchanged and nothing is saved.
C3_AtomicUpdate ==
  UpdateOnExisting =>
    LET P == PropsOf(last.pre, last.kind)
        n == Len(last.old)
    IN IF AllPresentInTurn(P, last.old, last.new)
       THEN /\ PropsOf(store, last.kind) = AppliedUpTo(P, last.old, last.new)[n]
            /\ last.saves = 1
       ELSE store = last.pre /\ last.saves = 0

\* C3 witness: an update whose first pair applied in memory and whose second
\* old property was missing, so the call aborted.
C3_Witness ==
  /\ UpdateOnExisting
  /\ Len(last.old) = 2
  /\ last.old[1] \in PropsOf(last.pre, last.kind)
  /\ ~AllPresentInTurn(PropsOf(last.pre, last.kind), last.old, last.new)

\* C4: a kind newly inserted by create_kind(k, p, S) is stored with
\* S union properties(p), properties(p) being p's stored set at creation
\* (empty when p was auto-created), also when p equals k.
C4_InheritOnCreate ==
  LET k == capitalize(last.kind)
      p == capitalize(last.parent)
      start == StartOf(last.pre)
  IN (last.op = "create_kind" /\ ~Has(start, k) /\ Has(store, k))
       => PropsOf(store, k) =
            last.props \cup (IF Has(start, p) THEN PropsOf(start, p) ELSE {})

\* C5: after remove_kind(k) for a kind k in the persisted tree, neither k nor
\* any descendant of k is resolvable.
C5_SubtreeRemoval ==
  (last.op = "remove_kind" /\ Has(last.pre, last.kind))
    => \A n \in DOMAIN last.pre[1].nodes :
         IsUnder(last.pre[1], n, last.kind) => ~Has(store, n)

\* C5 witness: a removal of a kind that had a descendant two levels below it.
C5_Witness ==
  /\ last.op = "remove_kind"
  /\ Has(last.pre, last.kind)
  /\ \E n \in DOMAIN last.pre[1].nodes :
       /\ IsUnder(last.pre[1], n, last.kind)
       /\ n # last.kind
       /\ last.pre[1].nodes[n].bpointer # Some(last.kind)

\* C6: are_properties_in_kind(S, k) returns true exactly when every element of
\* S is in k's stored property set, for every S and k in every store state.
C6_MembershipCheck ==
  last.op = "are_properties_in_kind" =>
    /\ last.outcome = "return"
    /\ last.ret = Some(\A i \in DOMAIN last.old :
                         Has(last.pre, last.kind)
                         /\ last.old[i] \in PropsOf(last.pre, last.kind))

\* C7: remove_kind, update_properties_of_kind, get_descendant_kinds,
\* get_kind_properties and are_properties_in_kind, called for a kind that is
\* not in the tree or with no tree, return; none ends in an unhandled failure.
C7_NoPropagatingFailure ==
  (last.op \in LookupOps \cup {"are_properties_in_kind"} /\ ~Has(last.pre, last.kind))
    => last.outcome = "return"

\* C8: create_kind terminates in every reachable store state and the recursion
\* that auto-creates a missing parent nests at most one level deep.
C8_CreateTerminates ==
  last.op = "create_kind" => (last.outcome = "return" /\ last.depth <= 1)

\* C9: every kind identifier appears at most once in the persisted tree.
C9_Uniqueness ==
  store # None => \A k \in LinkedIds(store[1]) : Occurrences(store[1], k) <= 1

\* C9 witness: a create_kind for a kind stored by an earlier call, after which
\* the kind is still linked into the tree once.
C9_Witness ==
  /\ last.op = "create_kind"
  /\ "info: kind exists" \in last.log
  /\ capitalize(last.kind) # Root
  /\ Has(last.pre, capitalize(last.kind))
  /\ Has(store, capitalize(last.kind))
  /\ Occurrences(store[1], capitalize(last.kind)) = 1

\* C10: remove_kind, update_properties_of_kind, get_descendant_kinds and
\* get_kind_properties resolve a kind from any letter-casing of its name.
C10_NormalizedLookup ==
  (last.op \in LookupOps /\ Has(last.pre, capitalize(last.kind)))
    => "error: kind not in graph" \notin last.log

\* C11: create_kind(k, p, S) with neither p nor k in the tree (p and k being
\* two kinds) leaves p stored as a direct child of the root "Kind" and k as a
\* direct child of p.
C11_MissingParentRepair ==
  LET k == capitalize(last.kind)
      p == capitalize(last.parent)
      start == StartOf(last.pre)
  IN (last.op = "create_kind" /\ k # p /\ ~Has(start, p) /\ ~Has(start, k))
       => /\ Has(store, p) /\ store[1].nodes[p].bpointer = Some(Root)
          /\ Has(store, k) /\ store[1].nodes[k].bpointer = Some(p)

\* C12: with no tree persisted get_descendant_kinds returns the empty sequence;
\* with a tree persisted and the kind not in it, it returns None (NotFound),
\* never the empty sequence.
C12_NotFoundDistinct ==
  last.op = "get_descendant_kinds" =>
    /\ last.pre = None => last.ret = Some(<<>>)
    /\ (last.pre # None /\ ~Has(last.pre, last.kind)) => last.ret = None

\* C13: get_descendant_kinds(k) for an existing kind returns exactly the
\* identifiers of the nodes whose parent is k, each once, and nothing deeper.
C13_DirectChildrenOnly ==
  (last.op = "get_descendant_kinds" /\ Has(last.pre, last.kind)) =>
    /\ last.ret # None
    /\ {last.ret[1][i] : i \in DOMAIN last.ret[1]}
         = {n \in DOMAIN last.pre[1].nodes : last.pre[1].nodes[n].bpointer = Some(last.kind)}
    /\ \A i, j \in DOMAIN last.ret[1] : last.ret[1][i] = last.ret[1][j] => i = j

\* C13 witness: the kind asked about has a child that itself has a child, and
\* only the child is listed.
C13_Witness ==
  /\ last.op = "get_descendant_kinds"
  /\ Has(last.pre, last.kind)
  /\ \E c, g \in DOMAIN last.pre[1].nodes :
       /\ last.pre[1].nodes[c].bpointer = Some(last.kind)
       /\ last.pre[1].nodes[g].bpointer = Some(c)
       /\ last.ret = Some(<<c>>)

\* C14: a successful update_properties_of_kind(k, old, new) changes the stored
\* property set of k alone: every other node's property set, the identifiers
\* and all parent and child links are as before.
C14_ShallowUpdate ==
  (last.op = "update_properties_of_kind" /\ last.saves = 1) =>
    /\ store # None
    /\ store[1].root = last.pre[1].root
    /\ DOMAIN store[1].nodes = DOMAIN last.pre[1].nodes
    /\ \A n \in DOMAIN store[1].nodes :
         /\ store[1].nodes[n].tag = last.pre[1].nodes[n].tag
         /\ store[1].nodes[n].bpointer = last.pre[1].nodes[n].bpointer
         /\ store[1].nodes[n].fpointer = last.pre[1].nodes[n].fpointer
         /\ n # last.kind => PropsOf(store, n) = PropsOf(last.pre, n)

\* C14 witness: a successful rename on a kind with a child that inherited the
\* old property; the kind's set changed and the child still has the old one.
C14_Witness ==
  /\ last.op = "update_properties_of_kind"
  /\ last.saves = 1
  /\ Len(last.old) >= 1
  /\ PropsOf(store, last.kind) # PropsOf(last.pre, last.kind)
  /\ \E c \in DOMAIN store[1].nodes :
       /\ store[1].nodes[c].bpointer = Some(last.kind)
       /\ last.old[1] \in PropsOf(store, c)
       /\ last.old[1] \notin PropsOf(store, last.kind)

\* C16: remove_kind and update_properties_of_kind called for a kind that is not
\* in the tree, or with no tree persisted, do not save and leave the persisted
\* state as it was.
C16_NoWriteOnNotFound ==
  (last.op \in {"remove_kind", "update_properties_of_kind"} /\ ~Has(last.pre, last.kind))
    => (last.saves = 0 /\ store = last.pre)

\* C16 witness: a remove_kind on a persisted tree that does not hold the kind.
C16_Witness ==
  /\ last.op = "remove_kind"
  /\ last.pre # None
  /\ size(last.pre[1]) > 1
  /\ ~Has(last.pre, last.kind)
  /\ store = last.pre

\* following parent pointers from n arrives at the root within fuel steps
RECURSIVE ClimbsToRoot(_, _, _)
ClimbsToRoot(tree, n, fuel) ==
  \/ n = Root
  \/ /\ fuel > 0
     /\ tree.nodes[n].bpointer # None
     /\ contains(tree, tree.nodes[n].bpointer[1])
     /\ ClimbsToRoot(tree, tree.nodes[n].bpointer[1], fuel - 1)

\* node m lists n among its children
LinksTo(tree, m, n) ==
  \E i \in DOMAIN tree.nodes[m].fpointer : tree.nodes[m].fpointer[i] = n

\* C17: in every persisted snapshot every node other than "Kind" has exactly
\* one parent, which is in the tree and lists it once among its children; no
\* node is its own ancestor; parent pointers lead from every node to "Kind".
C17_WellFormedTree ==
  store # None =>
    LET tree == store[1]
    IN \A n \in DOMAIN tree.nodes :
         /\ IF n = Root
            THEN /\ tree.nodes[n].bpointer = None
                 /\ tree.root = Some(Root)
                 /\ \A m \in DOMAIN tree.nodes : ~LinksTo(tree, m, n)
            ELSE /\ tree.nodes[n].bpointer # None
                 /\ contains(tree, tree.nodes[n].bpointer[1])
                 /\ tree.nodes[n].bpointer[1] # n
                 /\ \A m \in DOMAIN tree.nodes :
                      LinksTo(tree, m, n) <=> m = tree.nodes[n].bpointer[1]
                 /\ \A i, j \in DOMAIN tree.nodes[tree.nodes[n].bpointer[1]].fpointer :
                      (/\ tree.nodes[tree.nodes[n].bpointer[1]].fpointer[i] = n
                       /\ tree.nodes[tree.nodes[n].bpointer[1]].fpointer[j] = n) => i = j
         /\ ClimbsToRoot(tree, n, Cardinality(DOMAIN tree.nodes))
         /\ \A i \in DOMAIN tree.nodes[n].fpointer : contains(tree, tree.nodes[n].fpointer[i])

\* C17 witness: create_kind(k, parent=k) has stored k, as a child of "Kind".
C17_Witness ==
  /\ last.op = "create_kind"
  /\ capitalize(last.kind) = capitalize(last.parent)
  /\ capitalize(last.kind) # Root
  /\ last.saves = 1
  /\ Has(store, capitalize(last.kind))
  /\ store[1].nodes[capitalize(last.kind)].bpointer = Some(Root)

\* C18 as stated: the tree create_kind returns equals the persisted snapshot
\* as it stands when the call returns, for every outcome of the call.
C18_ReturnedTreeIsStore_Original ==
  (last.op = "create_kind" /\ last.outcome = "return") => last.ret = store

\* C18 amended: the tree create_kind returns equals the persisted snapshot
\* whenever a snapshot is persisted when the call returns; when the store is
\* still absent (the first call names "Kind" itself and is a duplicate of the
\* root made in memory) the returned tree is the root alone.
C18_ReturnedTreeIsStore ==
  (last.op = "create_kind" /\ last.outcome = "return") =>
    IF store = None THEN last.ret = Some(NewRootTree) ELSE last.ret = store

\* C18 witness: a create_kind that auto-created the parent and inserted the
\* kind, and returned the tree that is now stored.
C18_Witness ==
  /\ last.op = "create_kind"
  /\ last.outcome = "return"
  /\ last.saves = 2
  /\ last.ret = store

C20_RemoveExactlySubtree ==
  (last.op = "remove_kind" /\ last.saves = 1) =>
    \A n \in DOMAIN last.pre[1].nodes :
      ~IsUnder(last.pre[1], n, last.kind) =>
        /\ Has(store, n)
        /\ store[1].nodes[n].bpointer = last.pre[1].nodes[n].bpointer
        /\ PropsOf(store, n) = PropsOf(last.pre, n)

\* C20 witness: the removed kind had a sibling with properties; the sibling is
\* still stored under the same parent with the same properties.
C20_Witness ==
  /\ last.op = "remove_kind"
  /\ last.saves = 1
  /\ ~Has(store, last.kind)
  /\ \E b \in DOMAIN last.pre[1].nodes :
       /\ b # last.kind
       /\ last.pre[1].nodes[b].bpointer = last.pre[1].nodes[last.kind].bpointer
       /\ PropsOf(last.pre, b) # {}
       /\ Has(store, b)
       /\ PropsOf(store, b) = PropsOf(last.pre, b)

\* every caller has finished its call
AllDone == \A c \in Callers : race.callers[c].pc = "done"

\* C15: nothing in the load / mutate / save cycle detects interleaving: once
\* both callers have finished, neither has failed and the persisted tree is the
\* tree of the caller that saved last, built from the snapshot that caller
\* loaded, so what the other caller saved in between is not in it.
C15_LastSaveWins ==
  (AllDone /\ race.saved # <<>>) =>
    /\ \A c \in Callers : race.callers[c].outcome = "return"
    /\ store = race.callers[race.saved[Len(race.saved)]].result

\* C15 witness: both callers loaded before either saved, both finished without
\* error, and the kind created by the caller that saved first is not in the
\* persisted tree.
C15_Witness ==
  /\ AllDone
  /\ \A c \in Callers : race.callers[c].seen = 0 /\ race.callers[c].outcome = "return"
  /\ race.saved # <<>>
  /\ LET f == race.callers[race.saved[1]]
     IN /\ race.saved[1] # race.saved[Len(race.saved)]
        /\ f.op = "create_kind"
        /\ Has(f.result, f.kind)
        /\ ~Has(f.tree, f.kind)
        /\ ~Has(store, f.kind)

====
